---------------------------- MODULE Spec2Model ----------------------------
(***************************************************************************)
(* The three SAT decision procedures of the repository (dp.py, dpll.py,    *)
(* resolution.py) as one state machine.  A formula F is drawn at Init and  *)
(* the engines are run on it one after the other, the way the benchmark    *)
(* callers feed the same parsed formula to each engine:                    *)
(*     dp_eliminate(F); dpll_rec(F, set()); resolution(F); resolution(F)   *)
(* resolution is run twice so that two executions with different set       *)
(* iteration orders can be compared.                                       *)
(*                                                                         *)
(* dp.py and dpll.py work on Python lists (ordered, duplicates kept), so   *)
(* their formulas are sequences of sequences of literals.  resolution.py   *)
(* converts each clause to a frozenset, so its clauses are sets.           *)
(* Python's None for "no literal" is written 0 (0 is never a literal).     *)
(***************************************************************************)
EXTENDS Integers, Sequences, FiniteSets

\* Bounds of the input space: the variables are 1..NumVars, and a formula
\* has size at most MaxSize, its size being the number of its clauses plus
\* the number of its literal occurrences.
NumVars == 2
MaxSize == 6

Vars == 1..NumVars
Lits == {l \in (0 - NumVars)..NumVars : l # 0}

\* The shapes of the input formulas: the lists of clause lengths.
RECURSIVE ShapesUpTo(_)
ShapesUpTo(s) ==
    {<<>>} \cup UNION {{<<n>> \o sh : sh \in ShapesUpTo(s - n - 1)} :
                           n \in 0..(s - 1)}

RECURSIVE Total(_)
Total(sh) == IF Len(sh) = 0 THEN 0 ELSE Head(sh) + Total(Tail(sh))

\* the list formula with the clause lengths sh and the literals flat, in order
RECURSIVE Split(_, _)
Split(flat, sh) ==
    IF Len(sh) = 0 THEN <<>>
    ELSE <<SubSeq(flat, 1, Head(sh))>>
             \o Split(SubSeq(flat, Head(sh) + 1, Len(flat)), Tail(sh))

VARIABLES
    F,            \* the input formula (list of lists), never mutated
    phase,        \* which engine call is running: dp, dpll, res, res2, done
    dpClauses,    \* dp_eliminate: argument of the current recursive call
    dpResult,     \* dp_eliminate: "running", "True" or "False"
    dpllClauses,  \* dpll_rec: clauses argument of the current call
    dpllModel,    \* dpll_rec: model argument of the current call
    dpllStack,    \* dpll_rec: pending second branches (line 99) of open calls
    dpllResult,   \* dpll_rec: "running", "model" (dpllModel returned), "None"
    clauses,      \* resolution: the working set (set of frozensets)
    new,          \* resolution: the round's new-clause set
    pairs,        \* resolution: list(clauses) of the current round
    i, j,         \* resolution: loop indices into pairs (1-based)
    resResult,    \* resolution: "running", "True" or "False"
    resFirst      \* verdict of the first resolution(F) execution

vars == <<F, phase, dpClauses, dpResult, dpllClauses, dpllModel,
          dpllStack, dpllResult, clauses, new, pairs, i, j, resResult, resFirst>>

dpVars == <<dpClauses, dpResult>>
dpllVars == <<dpllClauses, dpllModel, dpllStack, dpllResult>>
resVars == <<clauses, new, pairs, i, j, resResult, resFirst>>

----------------------------------------------------------------------------
\* Generic list helpers (Python list semantics)

Abs(x) == IF x < 0 THEN 0 - x ELSE x

Range(s) == {s[k] : k \in 1..Len(s)}

\* [x for x in s if x != a]
Without(s, a) == SelectSeq(s, LAMBDA x : x # a)

\* concatenation of the clauses of f, in order
RECURSIVE Concat(_)
Concat(f) == IF Len(f) = 0 THEN <<>> ELSE Head(f) \o Concat(Tail(f))

\* list(dict.fromkeys(s)): first occurrences, order kept
RECURSIVE Dedup(_)
Dedup(s) ==
    IF Len(s) = 0 THEN <<>>
    ELSE <<Head(s)>> \o Dedup(Without(Tail(s), Head(s)))

\* the literals occurring in a list formula
LitsOf(f) == Range(Concat(f))

\* the distinct variables occurring in a list formula
VarsOf(f) == {Abs(l) : l \in LitsOf(f)}

----------------------------------------------------------------------------
\* dp.py

\* find_unit_clause: c[0] of the first clause of length 1, else None
find_unit_clause(f) ==
    IF \E k \in 1..Len(f) : Len(f[k]) = 1
    THEN LET k == CHOOSE k \in 1..Len(f) :
                      /\ Len(f[k]) = 1
                      /\ \A m \in 1..(k - 1) : Len(f[m]) # 1
         IN  f[k][1]
    ELSE 0

\* the loop of unit_propagate over the clauses left, acc being the list `new`
RECURSIVE unit_propagate_loop(_, _, _)
unit_propagate_loop(rest, unit, acc) ==
    IF Len(rest) = 0 THEN acc
    ELSE LET c == Head(rest) IN
         IF unit \in Range(c)
         THEN unit_propagate_loop(Tail(rest), unit, acc)
         ELSE IF (0 - unit) \in Range(c)
              THEN LET r == Without(c, 0 - unit) IN
                   IF Len(r) = 0 THEN << <<>> >>
                   ELSE unit_propagate_loop(Tail(rest), unit, Append(acc, r))
              ELSE unit_propagate_loop(Tail(rest), unit, Append(acc, c))

\* Mutant of unit_propagate: a clause emptied by removing -unit is dropped
\* instead of making the call return [[]]
unit_propagate_drop(f, unit) ==
    LET kept == SelectSeq(f, LAMBDA c : unit \notin Range(c))
        cut  == [k \in 1..Len(kept) |-> Without(kept[k], 0 - unit)]
    IN  SelectSeq(cut, LAMBDA r : Len(r) > 0)

unit_propagate(f, unit) == unit_propagate_loop(f, unit, <<>>)

\* pol[v] of find_pure_literal: the signs (lit > 0) variable v occurs with
Signs(f, v) == {l > 0 : l \in {x \in LitsOf(f) : Abs(x) = v}}

\* find_pure_literal: the dict pol is iterated in insertion order, which is
\* the order of first occurrence of each variable in the formula
find_pure_literal(f) ==
    LET order == Dedup([k \in 1..Len(Concat(f)) |-> Abs(Concat(f)[k])])
        pure(k) == Cardinality(Signs(f, order[k])) = 1
    IN  IF \E k \in 1..Len(order) : pure(k)
        THEN LET k == CHOOSE k \in 1..Len(order) :
                          pure(k) /\ \A m \in 1..(k - 1) : ~pure(m)
             IN  IF TRUE \in Signs(f, order[k]) THEN order[k] ELSE 0 - order[k]
        ELSE 0

\* not any(-l in R for l in R)
NoComplement(R) == \A l \in Range(R) : (0 - l) \notin Range(R)

\* lines 95-98 for one C and one D: the list of resolvents kept (0 or 1)
Resolvent(C, D, var) ==
    LET R == Dedup(Without(C, var) \o Without(D, 0 - var))
    IN  IF NoComplement(R) THEN <<R>> ELSE <<>>

\* the inner loop `for D in neg`
RECURSIVE ResolventsOf(_, _, _)
ResolventsOf(C, neg, var) ==
    IF Len(neg) = 0 THEN <<>>
    ELSE Resolvent(C, Head(neg), var) \o ResolventsOf(C, Tail(neg), var)

\* the outer loop `for C in pos`
RECURSIVE Resolvents(_, _, _)
Resolvents(pos, neg, var) ==
    IF Len(pos) = 0 THEN <<>>
    ELSE ResolventsOf(Head(pos), neg, var) \o Resolvents(Tail(pos), neg, var)

\* lines 87-99: the argument of the recursive call of the elimination step
Eliminate(f) ==
    LET lit0 == f[1][1]
        var  == Abs(lit0)
        pos  == SelectSeq(f, LAMBDA c : var \in Range(c))
        neg  == SelectSeq(f, LAMBDA c : (0 - var) \in Range(c))
        rest == SelectSeq(f, LAMBDA c : var \notin Range(c)
                                        /\ (0 - var) \notin Range(c))
    IN  rest \o Resolvents(pos, neg, var)

DpRunning == phase = "dp" /\ dpResult = "running"

\* line 77-78
CanDpEmptyClause ==
    /\ DpRunning
    /\ \E k \in 1..Len(dpClauses) : Len(dpClauses[k]) = 0

DpEmptyClause ==
    /\ CanDpEmptyClause
    /\ dpResult' = "False"
    /\ phase' = "dpll"
    /\ UNCHANGED <<F, dpClauses, dpllVars, resVars>>

\* line 79-80
CanDpEmptyFormula ==
    /\ DpRunning
    /\ Len(dpClauses) = 0

DpEmptyFormula ==
    /\ CanDpEmptyFormula
    /\ dpResult' = "True"
    /\ phase' = "dpll"
    /\ UNCHANGED <<F, dpClauses, dpllVars, resVars>>

DpNoBaseCase ==
    /\ DpRunning
    /\ \A k \in 1..Len(dpClauses) : Len(dpClauses[k]) # 0
    /\ Len(dpClauses) # 0

\* line 81-83
CanDpPure ==
    /\ DpNoBaseCase
    /\ find_pure_literal(dpClauses) # 0

DpPure ==
    /\ CanDpPure
    /\ LET p == find_pure_literal(dpClauses) IN
       dpClauses' = SelectSeq(dpClauses, LAMBDA c : p \notin Range(c))
    /\ UNCHANGED <<F, phase, dpResult, dpllVars, resVars>>

\* line 84-86
CanDpUnit ==
    /\ DpNoBaseCase
    /\ find_pure_literal(dpClauses) = 0
    /\ find_unit_clause(dpClauses) # 0

DpUnit ==
    /\ CanDpUnit
    /\ dpClauses' = unit_propagate(dpClauses, find_unit_clause(dpClauses))
    /\ UNCHANGED <<F, phase, dpResult, dpllVars, resVars>>

\* line 87-99
CanDpEliminate ==
    /\ DpNoBaseCase
    /\ find_pure_literal(dpClauses) = 0
    /\ find_unit_clause(dpClauses) = 0
    /\ Len(dpClauses[1]) > 0

DpEliminate ==
    /\ CanDpEliminate
    /\ dpClauses' = Eliminate(dpClauses)
    /\ UNCHANGED <<F, phase, dpResult, dpllVars, resVars>>

----------------------------------------------------------------------------
\* dpll.py

\* all_true
all_true(f, model) ==
    \A k \in 1..Len(f) : \E l \in Range(f[k]) : l \in model

\* some_false
some_false(f, model) ==
    \E k \in 1..Len(f) : \A l \in Range(f[k]) : (0 - l) \in model

\* survivors of one clause (line 53)
Survivors(c, model) == SelectSeq(c, LAMBDA l : (0 - l) \notin model)

\* lines 53-57 for one clause: the clause makes unit_clause return
UnitHit(c, model) ==
    /\ Len(Survivors(c, model)) = 1
    /\ Survivors(c, model)[1] \notin model
    /\ (0 - Survivors(c, model)[1]) \notin model

\* unit_clause: the survivor of the first clause that hits, else None
unit_clause(f, model) ==
    IF \E k \in 1..Len(f) : UnitHit(f[k], model)
    THEN LET k == CHOOSE k \in 1..Len(f) :
                      /\ UnitHit(f[k], model)
                      /\ \A m \in 1..(k - 1) : ~UnitHit(f[m], model)
         IN  Survivors(f[k], model)[1]
    ELSE 0

\* the literals pure_literal counts: those of unassigned variables, in order
Unassigned(f, model) ==
    SelectSeq(Concat(f), LAMBDA l : l \notin model /\ (0 - l) \notin model)

\* pure_literal: counts is iterated in insertion order
pure_literal(f, model) ==
    LET free  == Unassigned(f, model)
        order == Dedup([k \in 1..Len(free) |-> Abs(free[k])])
        signs(v) == {l > 0 : l \in {x \in Range(free) : Abs(x) = v}}
        pure(k) == Cardinality(signs(order[k])) = 1
    IN  IF \E k \in 1..Len(order) : pure(k)
        THEN LET k == CHOOSE k \in 1..Len(order) :
                          pure(k) /\ \A m \in 1..(k - 1) : ~pure(m)
             IN  IF TRUE \in signs(order[k]) THEN order[k] ELSE 0 - order[k]
        ELSE 0

\* Mutant of simplify: the polarity test is swapped, so the clauses holding
\* the false literal are dropped and the true literal is removed
RECURSIVE simplify_swapped(_, _, _)
simplify_swapped(f, var, value) ==
    IF Len(f) = 0 THEN <<>>
    ELSE LET clause == Head(f)
             tlit   == IF value THEN 0 - var ELSE var
             flit   == IF value THEN var ELSE 0 - var
         IN  IF tlit \in Range(clause)
             THEN simplify_swapped(Tail(f), var, value)
             ELSE <<Without(clause, flit)>>
                      \o simplify_swapped(Tail(f), var, value)

\* simplify: the loop over the clauses left
RECURSIVE simplify(_, _, _)
simplify(f, var, value) ==
    IF Len(f) = 0 THEN <<>>
    ELSE LET clause == Head(f)
             tlit   == IF value THEN var ELSE 0 - var
             flit   == IF value THEN 0 - var ELSE var
         IN  IF tlit \in Range(clause)
             THEN simplify(Tail(f), var, value)
             ELSE <<Without(clause, flit)>> \o simplify(Tail(f), var, value)

\* model | {lit}
Extend(model, lit) == model \cup {lit}

DpllRunning == phase = "dpll" /\ dpllResult = "running"

\* line 82-83: the model is returned through every open call
CanDpllAllTrue ==
    /\ DpllRunning
    /\ all_true(dpllClauses, dpllModel)

DpllAllTrue ==
    /\ CanDpllAllTrue
    /\ dpllResult' = "model"
    /\ phase' = "res"
    /\ UNCHANGED <<F, dpllClauses, dpllModel, dpllStack, dpVars, resVars>>

\* line 84-85 (or line 100) with no open branch call: dpll_rec(F, {}) is None
CanDpllFail ==
    /\ DpllRunning
    /\ ~all_true(dpllClauses, dpllModel)
    /\ some_false(dpllClauses, dpllModel)
    /\ Len(dpllStack) = 0

DpllFail ==
    /\ CanDpllFail
    /\ dpllResult' = "None"
    /\ phase' = "res"
    /\ UNCHANGED <<F, dpllClauses, dpllModel, dpllStack, dpVars, resVars>>

CanDpllBacktrack ==
    /\ phase = "dpll" /\ dpllResult = "running"
    /\ ~all_true(dpllClauses, dpllModel)
    /\ some_false(dpllClauses, dpllModel)
    /\ Len(dpllStack) > 0

\* Mutant of DpllBacktrack: the model is one set shared by all calls and
\* extended in place, so line 99 extends what the failed branch left
DpllBacktrackShared ==
    /\ CanDpllBacktrack
    /\ LET fr == dpllStack[Len(dpllStack)] IN
       /\ dpllClauses' = simplify(fr.clauses, fr.var, FALSE)
       /\ dpllModel' = dpllModel \cup {0 - fr.var}
    /\ dpllStack' = SubSeq(dpllStack, 1, Len(dpllStack) - 1)
    /\ UNCHANGED <<F, phase, dpllResult, dpVars, resVars>>

\* line 84-85 inside a first branch: None comes back to line 97 of the
\* innermost open branch call, which makes the call of line 99
DpllBacktrack ==
    /\ CanDpllBacktrack
    /\ LET fr == dpllStack[Len(dpllStack)] IN
       /\ dpllClauses' = simplify(fr.clauses, fr.var, FALSE)
       /\ dpllModel' = Extend(fr.model, 0 - fr.var)
    /\ dpllStack' = SubSeq(dpllStack, 1, Len(dpllStack) - 1)
    /\ UNCHANGED <<F, phase, dpllResult, dpVars, resVars>>

DpllUndecided ==
    /\ DpllRunning
    /\ ~all_true(dpllClauses, dpllModel)
    /\ ~some_false(dpllClauses, dpllModel)

\* line 86-88
CanDpllUnit ==
    /\ DpllUndecided
    /\ unit_clause(dpllClauses, dpllModel) # 0

DpllUnit ==
    /\ CanDpllUnit
    /\ LET unit == unit_clause(dpllClauses, dpllModel) IN
       /\ dpllClauses' = simplify(dpllClauses, Abs(unit), unit > 0)
       /\ dpllModel' = Extend(dpllModel, unit)
    /\ UNCHANGED <<F, phase, dpllStack, dpllResult, dpVars, resVars>>

\* line 89-91
CanDpllPure ==
    /\ DpllUndecided
    /\ unit_clause(dpllClauses, dpllModel) = 0
    /\ pure_literal(dpllClauses, dpllModel) # 0

DpllPure ==
    /\ CanDpllPure
    /\ LET pure == pure_literal(dpllClauses, dpllModel) IN
       /\ dpllClauses' = simplify(dpllClauses, Abs(pure), pure > 0)
       /\ dpllModel' = Extend(dpllModel, pure)
    /\ UNCHANGED <<F, phase, dpllStack, dpllResult, dpVars, resVars>>

\* line 92-100: the first unassigned literal decides the branch variable and
\* the first branch (line 96) is entered; without such a literal line 100
\* returns None to the caller
CanDpllBranch ==
    /\ DpllUndecided
    /\ unit_clause(dpllClauses, dpllModel) = 0
    /\ pure_literal(dpllClauses, dpllModel) = 0

DpllBranch ==
    /\ CanDpllBranch
    /\ LET free == Unassigned(dpllClauses, dpllModel) IN
       IF Len(free) > 0
       THEN LET var == Abs(free[1]) IN
            /\ dpllStack' = Append(dpllStack, [clauses |-> dpllClauses,
                                               model |-> dpllModel,
                                               var |-> var])
            /\ dpllClauses' = simplify(dpllClauses, var, TRUE)
            /\ dpllModel' = Extend(dpllModel, var)
            /\ UNCHANGED <<phase, dpllResult>>
       ELSE IF Len(dpllStack) = 0
            THEN /\ dpllResult' = "None"
                 /\ phase' = "res"
                 /\ UNCHANGED <<dpllClauses, dpllModel, dpllStack>>
            ELSE LET fr == dpllStack[Len(dpllStack)] IN
                 /\ dpllClauses' = simplify(fr.clauses, fr.var, FALSE)
                 /\ dpllModel' = Extend(fr.model, 0 - fr.var)
                 /\ dpllStack' = SubSeq(dpllStack, 1, Len(dpllStack) - 1)
                 /\ UNCHANGED <<phase, dpllResult>>
    /\ UNCHANGED <<F, dpVars, resVars>>

----------------------------------------------------------------------------
\* resolution.py

\* set(frozenset(c) for c in clauses), line 53
FrozenSets(f) == {Range(f[k]) : k \in 1..Len(f)}

\* Mutant of ClashLits: the test `-lit in c2` is missing, so resolve_pair
\* resolves on the first literal of c1 it visits
ClashLitsUntested(c1, c2) == c1

\* The literals resolve_pair can return on: `for lit in c1` visits the set c1
\* in an unspecified order, so the first lit with -lit in c2 is any of them.
ClashLits(c1, c2) == {lit \in c1 : (0 - lit) \in c2}

\* line 48
ResolveOn(c1, c2, lit) == (c1 \cup c2) \ {lit, 0 - lit}

\* list(clauses), line 56.  The order of a Python set is unspecified; one
\* order (by the key below) is used, since the round does not depend on it:
\* `new` is a set, every pair (i < j) is visited, resolve_pair(a, b) and
\* resolve_pair(b, a) have the same possible resolvents, and line 62 returns
\* as soon as any pair gives the empty resolvent, which a pair does for every
\* literal it can be resolved on or for none.
LitBit(l) == IF l > 0 THEN 2 * l - 2 ELSE (0 - 2 * l) - 1

RECURSIVE Pow2(_)
Pow2(n) == IF n = 0 THEN 1 ELSE 2 * Pow2(n - 1)

RECURSIVE Key(_)
Key(c) ==
    IF c = {} THEN 0
    ELSE LET l == CHOOSE l \in c : TRUE IN Pow2(LitBit(l)) + Key(c \ {l})

RECURSIVE ListOf(_)
ListOf(S) ==
    IF S = {} THEN <<>>
    ELSE LET c == CHOOSE c \in S : \A d \in S : Key(c) <= Key(d)
         IN  <<c>> \o ListOf(S \ {c})

ResRunning == phase \in {"res", "res2"} /\ resResult = "running"

\* a pair (i, j) of the double loop of lines 57-58 is left
HasPair == j <= Len(pairs)

\* the loop indices after the pair (i, j)
NextI == IF j < Len(pairs) THEN i ELSE i + 1
NextJ == IF j < Len(pairs) THEN j + 1 ELSE i + 2

\* resolution(F) returns v; the harness starts the second execution or ends
ResReturn(v) ==
    IF phase = "res"
    THEN /\ resFirst' = v
         /\ phase' = "res2"
         /\ clauses' = FrozenSets(F)
         /\ new' = {}
         /\ pairs' = ListOf(FrozenSets(F))
         /\ i' = 1
         /\ j' = 2
         /\ UNCHANGED resResult
    ELSE /\ resResult' = v
         /\ phase' = "done"
         /\ UNCHANGED <<resFirst, clauses, new, pairs, i, j>>

\* line 59-60: resolve_pair returns None
CanResNoClash ==
    /\ ResRunning
    /\ HasPair
    /\ ClashLits(pairs[i], pairs[j]) = {}

ResNoClash ==
    /\ CanResNoClash
    /\ i' = NextI
    /\ j' = NextJ
    /\ UNCHANGED <<F, phase, clauses, new, pairs, resResult, resFirst,
                   dpVars, dpllVars>>

\* line 59-62: the resolvent is empty
CanResEmpty ==
    /\ ResRunning
    /\ HasPair
    /\ \E lit \in ClashLits(pairs[i], pairs[j]) :
           ResolveOn(pairs[i], pairs[j], lit) = {}

ResEmpty ==
    /\ CanResEmpty
    /\ ResReturn("False")
    /\ UNCHANGED <<F, dpVars, dpllVars>>

\* line 59-63: a nonempty resolvent is added to new
CanResAdd ==
    /\ ResRunning
    /\ HasPair
    /\ \E lit \in ClashLits(pairs[i], pairs[j]) :
           ResolveOn(pairs[i], pairs[j], lit) # {}

ResAdd ==
    /\ CanResAdd
    /\ \E lit \in ClashLits(pairs[i], pairs[j]) :
           /\ ResolveOn(pairs[i], pairs[j], lit) # {}
           /\ new' = new \cup {ResolveOn(pairs[i], pairs[j], lit)}
    /\ i' = NextI
    /\ j' = NextJ
    /\ UNCHANGED <<F, phase, clauses, pairs, resResult, resFirst,
                   dpVars, dpllVars>>

\* line 64-65
CanResFixpoint ==
    /\ ResRunning
    /\ ~HasPair
    /\ new \subseteq clauses

ResFixpoint ==
    /\ CanResFixpoint
    /\ ResReturn("True")
    /\ UNCHANGED <<F, dpVars, dpllVars>>

CanResMerge ==
    /\ phase \in {"res", "res2"} /\ resResult = "running"
    /\ j > Len(pairs)
    /\ ~(new \subseteq clauses)

\* Mutant of ResMerge: line 66 is missing, the working set never grows
ResMergeForget ==
    /\ CanResMerge
    /\ new' = {}
    /\ i' = 1
    /\ j' = 2
    /\ UNCHANGED <<F, phase, clauses, pairs, resResult, resFirst,
                   dpVars, dpllVars>>

\* line 66-67 and the next round's line 56
ResMerge ==
    /\ CanResMerge
    /\ clauses' = clauses \cup new
    /\ new' = {}
    /\ pairs' = ListOf(clauses \cup new)
    /\ i' = 1
    /\ j' = 2
    /\ UNCHANGED <<F, phase, resResult, resFirst, dpVars, dpllVars>>

----------------------------------------------------------------------------
\* The harness

Init ==
    /\ \E sh \in ShapesUpTo(MaxSize) : \E flat \in [1..Total(sh) -> Lits] :
           F = Split(flat, sh)
    /\ phase = "dp"
    /\ dpClauses = F
    /\ dpResult = "running"
    /\ dpllClauses = F
    /\ dpllModel = {}
    /\ dpllStack = <<>>
    /\ dpllResult = "running"
    /\ clauses = FrozenSets(F)
    /\ new = {}
    /\ pairs = ListOf(FrozenSets(F))
    /\ i = 1
    /\ j = 2
    /\ resResult = "running"
    /\ resFirst = "running"

Next ==
    \/ DpEmptyClause
    \/ DpEmptyFormula
    \/ DpPure
    \/ DpUnit
    \/ DpEliminate
    \/ DpllAllTrue
    \/ DpllFail
    \/ DpllBacktrack
    \/ DpllUnit
    \/ DpllPure
    \/ DpllBranch
    \/ ResNoClash
    \/ ResEmpty
    \/ ResAdd
    \/ ResFixpoint
    \/ ResMerge

Spec == Init /\ [][Next]_vars

Done == phase = "done"

\* Some step of some engine can be taken.  Every action is its Can-guard
\* followed by assignments that always have a value, so this is ENABLED Next.
CanStep ==
    \/ CanDpEmptyClause \/ CanDpEmptyFormula \/ CanDpPure \/ CanDpUnit
    \/ CanDpEliminate
    \/ CanDpllAllTrue \/ CanDpllFail \/ CanDpllBacktrack \/ CanDpllUnit
    \/ CanDpllPure \/ CanDpllBranch
    \/ CanResNoClash \/ CanResEmpty \/ CanResAdd \/ CanResFixpoint
    \/ CanResMerge

----------------------------------------------------------------------------
\* Ground truth: satisfiability by enumeration of the assignments

\* literal l is true under the assignment A (the set of true variables)
LitTrue(A, l) == IF l > 0 THEN l \in A ELSE (0 - l) \notin A

\* the clause with literal set c is true under A
ClauseTrue(A, c) == \E l \in c : LitTrue(A, l)

\* the assignments that satisfy every clause of the list formula f
ModelsOf(f) ==
    {A \in SUBSET Vars : \A k \in 1..Len(f) : ClauseTrue(A, Range(f[k]))}

Sat(f) == ModelsOf(f) # {}

\* the clause with literal set c is a logical consequence of f
Entails(f, c) == \A A \in ModelsOf(f) : ClauseTrue(A, c)

Tautology(c) == \E l \in c : (0 - l) \in c

----------------------------------------------------------------------------
\* Properties

\* s < t in the lexicographic order of triples of integers
LexLess(s, t) ==
    \/ s[1] < t[1]
    \/ s[1] = t[1] /\ s[2] < t[2]
    \/ s[1] = t[1] /\ s[2] = t[2] /\ s[3] < t[3]

\* the engine calls still to be made or finished
PhaseRank ==
    CASE phase = "dp"   -> 4
      [] phase = "dpll" -> 3
      [] phase = "res"  -> 2
      [] phase = "res2" -> 1
      [] phase = "done" -> 0

\* the number of tautological clauses of a list formula
TautologyCount(f) == Cardinality({k \in 1..Len(f) : Tautology(Range(f[k]))})

\* a bound on the calls a dpll_rec call on n variables can still make
RECURSIVE CallWeight(_)
CallWeight(n) == IF n = 0 THEN 2 ELSE 3 * CallWeight(n - 1) + 2

\* the weight of the second branches still open, frames 1..k of the stack
RECURSIVE PendingWeight(_)
PendingWeight(k) ==
    IF k = 0 THEN 0
    ELSE CallWeight(Cardinality(VarsOf(dpllStack[k].clauses)) - 1) + 1
             + PendingWeight(k - 1)

\* the pairs (i, j) of the current round still to visit, weighted
PairsLeft ==
    IF j > Len(pairs) THEN 0
    ELSE (Len(pairs) - i) * Len(pairs) + (Len(pairs) - j) + 1

Variant ==
    CASE phase = "dp" ->
             <<PhaseRank, Cardinality(VarsOf(dpClauses)),
               TautologyCount(dpClauses)>>
      [] phase = "dpll" ->
             <<PhaseRank,
               CallWeight(Cardinality(VarsOf(dpllClauses)))
                   + PendingWeight(Len(dpllStack)), 0>>
      [] phase \in {"res", "res2"} ->
             <<PhaseRank, Cardinality(SUBSET Lits) - Cardinality(clauses),
               PairsLeft>>
      [] phase = "done" -> <<PhaseRank, 0, 0>>

\* C1: cross-engine agreement.  For every formula F the three verdicts
\* coincide: dp_eliminate(F) is True exactly when dpll_rec(F, {}) returns a
\* model exactly when resolution(F) is True.
CrossEngineAgreement ==
    Done => /\ (dpResult = "True") <=> (dpllResult = "model")
            /\ (dpllResult = "model") <=> (resResult = "True")

\* C2: the resolution verdict is correct.  For every formula F,
\* resolution(F) returns True if F has a satisfying assignment and False if
\* it has none, whichever complementary literal resolve_pair picks.
ResolutionVerdictCorrect ==
    (phase = "res2" \/ Done) =>
        /\ (resFirst = "True") <=> Sat(F)
        /\ Done => ((resResult = "True") <=> Sat(F))

\* C3: the DPLL result is correct.  dpll_rec(F, {}) returns None if and only
\* if F is unsatisfiable; otherwise it returns a set M of literals such that
\* every clause of the original input F contains a literal of M.
DpllResultCorrect ==
    dpllResult # "running" =>
        /\ (dpllResult = "None") <=> ~Sat(F)
        /\ dpllResult = "model" =>
               \A k \in 1..Len(F) : \E l \in Range(F[k]) : l \in dpllModel

\* C3 witness: a model with a negative literal is returned for a formula of
\* two two-literal clauses
DpllModelReturned ==
    /\ dpllResult = "model"
    /\ Len(F) = 2
    /\ \A k \in 1..Len(F) : Len(F[k]) = 2
    /\ Cardinality(dpllModel) = 2
    /\ \E l \in dpllModel : l < 0

\* C4: the DP verdict is correct.  For every formula F, tautological clauses
\* and duplicate literals included, dp_eliminate(F) returns True if and only
\* if F has a satisfying assignment.
DpVerdictCorrect ==
    dpResult # "running" => ((dpResult = "True") <=> Sat(F))

\* C4 witness: a verdict after recursive calls on a formula with a
\* tautological clause and a clause with a duplicate literal
DpVerdictOnTautologyAndDuplicate ==
    /\ dpResult # "running"
    /\ dpClauses # F
    /\ \E k \in 1..Len(F) : Tautology(Range(F[k]))
    /\ \E k \in 1..Len(F) : Len(F[k]) = 2 /\ F[k][1] = F[k][2]

\* C5: empty-clause base case.  For every formula that contains an empty
\* clause all three engines report unsatisfiable: dp_eliminate returns
\* False, dpll_rec(F, {}) returns None and resolution returns False.
EmptyClauseUnsat ==
    (Done /\ \E k \in 1..Len(F) : Len(F[k]) = 0) =>
        /\ dpResult = "False"
        /\ dpllResult = "None"
        /\ resResult = "False"

\* C6: totality.  For every well-formed finite formula each of dp_eliminate,
\* dpll_rec(F, {}) and resolution eventually returns a verdict: the DP and
\* DPLL recursions reach a base case on every path and the resolution loop
\* reaches an empty resolvent or a round that adds no new clause.
\* Stated with a variant: until all engines have returned a step is
\* possible (no call raises or hangs), and every step strictly decreases Variant, a triple of natural
\* numbers ordered lexicographically.
AllEnginesReturn ==
    /\ [](~Done => CanStep)
    /\ [](\A k \in 1..3 : Variant[k] >= 0)
    /\ [][Next => LexLess(Variant', Variant)]_vars

\* C6 witness: all engines have returned, DP after recursive calls, DPLL
\* after a branch, resolution after more than one round
AllReturnedAfterWork ==
    /\ Done
    /\ dpClauses # F
    /\ \E l \in dpllModel : l < 0
    /\ Cardinality(clauses) > Cardinality(FrozenSets(F))

\* C7: determinism of verdicts.  All executions of resolution on F return
\* the same verdict, for every choice in resolve_pair of the complementary
\* literal to resolve on when two clauses have several.
VerdictDeterministic ==
    Done => resFirst = resResult

\* C7 witness: two executions have returned on a formula with two clauses
\* that can be resolved on more than one literal
TwoRunsWithChoice ==
    /\ Done
    /\ \E c1 \in FrozenSets(F) : \E c2 \in FrozenSets(F) :
           Cardinality(ClashLits(c1, c2)) > 1

\* C8: model consistency.  In every call of dpll_rec reachable from
\* dpll_rec(F, {}), after every extension by the unit rule, the pure-literal
\* rule or either branch, the model never contains both a literal and its
\* negation.
ModelConsistent ==
    /\ \A l \in dpllModel : (0 - l) \notin dpllModel
    /\ \A k \in 1..Len(dpllStack) :
           \A l \in dpllStack[k].model : (0 - l) \notin dpllStack[k].model

\* C8 witness: the formula makes the first call branch, and the second
\* branch of that call (line 99) has been entered
SecondBranchEntered ==
    /\ phase = "dpll"
    /\ ~all_true(F, {}) /\ ~some_false(F, {})
    /\ unit_clause(F, {}) = 0 /\ pure_literal(F, {}) = 0
    /\ Len(dpllStack) = 0
    /\ dpllModel # {}

\* C9: DP termination measure.  Every recursive call made by dp_eliminate
\* (pure-literal, unit-propagation or elimination step) is on a formula with
\* strictly fewer distinct variables than the caller's formula; in
\* particular after the elimination step neither the pivot variable nor its
\* negation occurs in any clause of rest + resolvents.
DpVariablesDecrease ==
    [][/\ (DpPure \/ DpUnit \/ DpEliminate) =>
              Cardinality(VarsOf(dpClauses')) < Cardinality(VarsOf(dpClauses))
       /\ DpEliminate => Abs(dpClauses[1][1]) \notin VarsOf(dpClauses')]_vars

\* C10: resolution working-set soundness.  At every point of resolution(F)
\* every clause in the working set and in the round's new-clause set is a
\* logical consequence of the input F.
WorkingSetSound ==
    \A c \in clauses \cup new : Entails(F, c)

============================================================================
